---- MODULE Spec2Model ----
(***************************************************************************)
(* Portfolio optimizer: the maximum-Sharpe optimizer (optimizer.py), the   *)
(* price provider wrapper (data_handler.py) and the portfolio analyzer     *)
(* (portfolio_analyzer.py: analysis, market context, recommendation).      *)
(*                                                                         *)
(* Numbers.  Floats are modelled as scaled integers:                       *)
(*   - optimizer weights in millionths (One = 1.0, Tol = 1e-6);            *)
(*   - returns, volatilities, drawdowns, trends in percent (5 = 0.05);     *)
(*   - betas and correlations in hundredths (100 = 1.0), Sharpe ratios in  *)
(*     millionths, fine enough for the strict comparisons of lines         *)
(*     220-222 to come out as on the ratio itself;                         *)
(*   - projected prices in millionths of a dollar, daily returns in 1e-8, *)
(*     the projected annual return and volatility in basis points (1e-4); *)
(*   - a candidate's two reductions and its score in halves of a          *)
(*     hundredth (lines 342-343 halve).                                    *)
(* Price tables are modelled by what the code reads from them: the column  *)
(* labels, the row index (dates) and the statistics pandas computes from   *)
(* the rows.  Every statistic is a finite number: tables that carry rows   *)
(* carry enough of them for pandas to return numbers and not NaN.          *)
(***************************************************************************)
EXTENDS Integers, Sequences, FiniteSets, TLC

(***************************************************************************)
(* Bounds of the model.                                                    *)
(***************************************************************************)
\* largest number of columns of a price table handed to optimize_portfolio
MaxAssets == 2
\* the solver's iterates lie on a grid of One/Grid steps (plus or minus Acc)
Grid == 2
\* largest num_recommendations asked for on a drawn candidate list
MaxNum == 3
\* largest num_recommendations a caller of recommend_stocks asks for
MaxNumCall == 1
\* the same, in the recorded passes of the loop
MaxNumLoop == 2
\* largest number of rows a sector-constituents lookup returns in the loop
\* over the sectors, in a whole request
MaxRows == 1
\* the same, in the runs of the loop alone
MaxPassRows == 2
\* largest number of rows the fallback's sector-constituents lookup returns
MaxFallbackRows == 3
\* largest number of scored candidates in a drawn recommendation list
MaxCands == 3
\* number of states of the model's random generator
RngPeriod == 3

One == 10^6
\* the tolerance of the weights' sum, 1e-6
Tol == One \div 10^6
\* SLSQP's accuracy (scipy's default ftol = 1e-6): on success the equality
\* constraint is violated by less than this
Acc == One \div 10^6

VARIABLES
    pc,                  \* position of the one (synchronous) request in flight
    entry,               \* the entry point the request called
    outcome,             \* what the entry point returned or raised
    risk_free_rate,      \* PortfolioAnalyzer.risk_free_rate (percent)
    rng,                 \* the state of numpy's process-global generator
    first_run,           \* the projection a caller kept to compare a rerun with
    stock_fetches,       \* rows of a pass whose prices were asked of the provider
    processed,           \* the passes of the loop over the sectors, as taken
    \* optimize_portfolio
    price_data, init_guess, solver_calls, result,
    \* analyze_proposed_portfolio
    portfolio_data, weights, historical_data, market_data, hist, beta,
    dates, future_prices, projected,
    \* recommend_stocks
    num_recommendations, current_analysis, current_volatility, current_beta,
    etf_data, portfolio_returns, correlations, low_corr_sectors, sector_pos,
    recommendations, holdings,
    holdings_lookup      \* what the get_holdings() call of the last step did

optVars == <<price_data, init_guess, solver_calls, result>>
anLocals == <<weights, historical_data, market_data, hist, beta, dates,
              future_prices, projected>>
anVars == <<portfolio_data, anLocals>>
recLocals == <<current_volatility, current_beta, etf_data, portfolio_returns,
               correlations, low_corr_sectors, sector_pos, recommendations,
               holdings, holdings_lookup>>
recVars == <<num_recommendations, current_analysis, recLocals>>
vars == <<pc, entry, outcome, risk_free_rate, rng, first_run, stock_fetches,
          processed,
          optVars, anVars, recVars>>

(***************************************************************************)
(* Helpers.                                                                *)
(***************************************************************************)
Abs(x) == IF x < 0 THEN -x ELSE x

Min(a, b) == IF a < b THEN a ELSE b

RECURSIVE SumSeq(_)
SumSeq(s) == IF s = <<>> THEN 0 ELSE Head(s) + SumSeq(Tail(s))

Range(s) == {s[i] : i \in DOMAIN s}

\* the sequences over S of length 0..n
SeqsUpTo(S, n) == UNION {[1..k -> S] : k \in 0..n}

\* a value for a local that is not bound
None == <<>>

\* what an entry point hands back: a value, or an exception that escapes it
Returned(v) == [kind |-> "returned", value |-> v]
Raised(exc) == [kind |-> "raised", exc |-> exc]

(***************************************************************************)
(* Price tables (pandas DataFrames of closing prices).                     *)
(***************************************************************************)
\* pd.DataFrame(): no columns, no rows
DataFrame0 == [cols |-> <<>>, index |-> {}, stats |-> None]

\* DataFrame.empty: some axis has length 0
IsEmpty(df) == df.cols = <<>> \/ df.index = {}

\* the index of df.pct_change().dropna(): every date but the first
ReturnsIndex(df) ==
    IF df.index = {} THEN {}
    ELSE df.index \ {CHOOSE d \in df.index : \A e \in df.index : d <= e}

\* get_price_data(tickers, start, end) for a list of tickers, given what
\* yf.download does: it raises, or returns a frame whose columns are a
\* MultiIndex (price field, ticker) or, for one ticker, plain price fields.
\* dl.index holds the dates on which every requested ticker has a price, the
\* rows dropna() keeps.
get_price_data(tickers, dl) ==
    IF dl.kind = "raise" THEN DataFrame0
    ELSE IF dl.kind = "multi"
         THEN [cols |-> tickers, index |-> dl.index, stats |-> dl.stats]
         ELSE [cols |-> <<"Close">>, index |-> dl.index, stats |-> dl.stats]

\* the dates of the past year, and of an older window that shares none
ThisYear == 1..3
OlderYear == 4..6

\* the column layouts yf.download can give for a list of tickers: a
\* MultiIndex, or for one ticker also plain price fields
Kinds(tickers) == IF Len(tickers) = 1 THEN {"multi", "flat"} ELSE {"multi"}

\* what yf.download can do: raise, or return a frame with a column layout of
\* K whose complete rows are one of the windows W and whose statistics are
\* one of Stats
Downloads(K, W, Stats) ==
    {[kind |-> "raise", index |-> {}, stats |-> None]}
    \cup {[kind |-> k, index |-> w, stats |-> IF w = {} THEN None ELSE s] :
              k \in K, w \in W, s \in Stats}

(***************************************************************************)
(* optimizer.py                                                            *)
(***************************************************************************)
Tickers == {"AAA", "BBB", "CCC"}

\* the price tables handed to optimize_portfolio: the provider's failure
\* value, and tables of 1..MaxAssets columns with two or more return rows
TickerLists == {<<"AAA">>, <<"AAA", "BBB">>, <<"AAA", "BBB", "CCC">>}
OptimizerInputs ==
    {DataFrame0}
    \cup {[cols |-> t, index |-> 1..3, stats |-> None] :
              t \in {u \in TickerLists : Len(u) <= MaxAssets}}

\* line 36: [1.0 / num_assets] * num_assets (num_assets > 0)
InitGuess(num_assets) == [i \in 1..num_assets |-> One \div num_assets]

\* line 37: a (0, 1) pair per asset
bounds_open(num_assets) == [i \in 1..num_assets |-> <<0 - One, 2 * One>>]
bounds(num_assets) == [i \in 1..num_assets |-> <<0, One>>]

\* line 38: the equality constraint np.sum(weights) - 1
constraint_fun(w) == SumSeq(w) - One

\* the points the solver can stop at
SolverValues == {g * (One \div Grid) + d : g \in (0 - 1)..(Grid + 1), d \in (0 - Acc)..Acc}

\* lines 40-47: minimize(..., method='SLSQP', bounds, constraints) started at
\* x0.  SLSQP either converges (success) to a point inside the bounds whose
\* constraint violation is below its accuracy, or reports failure.
Minimize(x0, bnds) ==
    LET n == Len(x0)
        ok == {x \in [1..n -> SolverValues] :
                  /\ \A i \in 1..n : bnds[i][1] <= x[i] /\ x[i] <= bnds[i][2]
                  /\ Abs(constraint_fun(x)) <= Acc}
    IN {[success |-> TRUE, x |-> x] : x \in ok}
       \cup {[success |-> FALSE, x |-> x0]}

\* lines 59-60: the solver did not converge
solver_failed_fallback(res, x0) == Returned([weights |-> x0])
solver_failed(res, x0) == Raised("ValueError: Optimization failed.")

\* lines 49-60
optimize_result(res, x0) ==
    IF res.success THEN Returned([weights |-> res.x])
    ELSE solver_failed(res, x0)

(***************************************************************************)
(* portfolio_analyzer.py: analyze_proposed_portfolio                       *)
(***************************************************************************)
\* a position of the caller's dict {ticker: (price, shares)}; the dict is the
\* sequence of its items in insertion order
Pos(t, price, shares) == [ticker |-> t, price |-> price, shares |-> shares]

Portfolios ==
    { <<>>,
      <<Pos("AAA", 0, 1)>>,
      <<Pos("AAA", 10, 1)>>,
      <<Pos("AAA", 10, 1), Pos("BBB", 10, 3)>> }

\* list(portfolio_data.keys())
Keys(p) == [i \in DOMAIN p |-> p[i].ticker]

\* line 37: sum(price * shares for price, shares in portfolio_data.values())
TotalInvestment(p) == SumSeq([i \in DOMAIN p |-> p[i].price * p[i].shares])

\* lines 38-39 and 296-297: (price * shares) / total per ticker, in
\* millionths; the division raises ZeroDivisionError when the total is 0
\* and the portfolio has a position
PositionWeightsNoShares(p) ==
    IF p # <<>> /\ TotalInvestment(p) = 0 THEN Raised("ZeroDivisionError")
    ELSE Returned([i \in DOMAIN p |-> (p[i].price * One) \div TotalInvestment(p)])
PositionWeights(p) ==
    IF p # <<>> /\ TotalInvestment(p) = 0 THEN Raised("ZeroDivisionError")
    ELSE Returned([i \in DOMAIN p |->
                      (p[i].price * p[i].shares * One) \div TotalInvestment(p)])

\* lines 58, 82, 299: returns.dot(pd.Series(weights)) needs the frame's
\* columns to be the weights' labels, else ValueError (not aligned)
DotAligned(df, p) == Range(df.cols) = Range(Keys(p))

\* the statistics of a historical table of n columns under the weights of
\* the portfolio of n positions in Portfolios: of the portfolio's return
\* series (annualized mean, volatility, maximum drawdown; lines 58-67) and
\* of each column (annualized mean and volatility, line 55), in percent.
\* The portfolio's mean is the weighted sum of the columns' means: for two
\* columns under the weights 1/4 and 3/4, 6 + 6 and 1 + 3.
\* The figures and the ratio of line 61 keep clear of the thresholds of
\* lines 204-238, where the rounding of a float would decide a comparison.
HistStats(n) ==
    IF n = 1
    THEN { [ret |-> 20, vol |-> 12, mdd |-> 0 - 5,
            asset_ret |-> <<20>>, asset_vol |-> <<12>>],
           [ret |-> 4, vol |-> 30, mdd |-> 0 - 30,
            asset_ret |-> <<4>>, asset_vol |-> <<30>>] }
    ELSE IF n = 2
    THEN { [ret |-> 12, vol |-> 12, mdd |-> 0 - 5,
            asset_ret |-> <<24, 8>>, asset_vol |-> <<12, 16>>],
           [ret |-> 4, vol |-> 30, mdd |-> 0 - 30,
            asset_ret |-> <<4, 4>>, asset_vol |-> <<30, 30>>] }
    ELSE {}

\* the statistics of the benchmark: trend percentage (last / first - 1) * 100,
\* its volatility, and cov(portfolio, market) / var(market) in hundredths
MarketStats ==
    {[trend |-> t, vol |-> 15, beta |-> b] :
         t \in {0 - 6, 0 - 5, 0, 5, 6}, b \in {50, 150}}


(***************************************************************************)
(* The projection, lines 87-115.  Prices are in millionths of a dollar,    *)
(* daily returns in 1e-8 (79365 = 7.9365 basis points), the projected      *)
(* annual return and volatility in basis points (1764 = 17.64 percent).    *)
(***************************************************************************)
\* line 88
num_days == 252

\* end_date.weekday() (Monday is 0) of the day of the request
Weekdays == {0, 5}

\* lines 93-97: the days end_date + 1 .. end_date + num_days (as offsets from
\* end_date) whose weekday() is below 5
ProjectionDates(wd) ==
    SelectSeq([d \in 1..num_days |-> d], LAMBDA d : (wd + d) % 7 < 5)

\* x / y rounded to the nearest integer (y > 0)
Round(x, y) == (2 * x + y) \div (2 * y)

\* long division by y > 0: k more decimal digits after the quotient q and
\* the remainder r
RECURSIVE DivDigits(_, _, _, _)
DivDigits(q, r, k, y) ==
    IF k = 0 THEN q
    ELSE DivDigits(q * 10 + (r * 10) \div y, (r * 10) % y, k - 1, y)

\* x * 10^k / y cut to the integer below (y > 0)
ScaleDiv(x, k, y) == DivDigits(x \div y, x % y, k, y)

\* lines 61, 115: (annual_return - risk_free_rate) / annual_volatility, in
\* millionths (vol > 0; the three in one unit)
Sharpe(ret, vol, rf) == ScaleDiv(ret - rf, 6, vol)

\* <<quotient, remainder>> of x * y by z for x, y >= 0, z > 0, by long
\* multiplication over the decimal digits of y
RECURSIVE MulQR(_, _, _)
MulQR(x, y, z) ==
    IF y = 0 THEN <<0, 0>>
    ELSE LET up == MulQR(x, y \div 10, z)
             t == up[2] * 10 + x * (y % 10)
         IN <<up[1] * 10 + t \div z, t % z>>

\* x * y / z cut to the integer below (x >= 0, z > 0)
MulDiv(x, y, z) ==
    IF y >= 0 THEN MulQR(x, y, z)[1]
    ELSE LET qr == MulQR(x, 0 - y, z)
         IN IF qr[2] = 0 THEN 0 - qr[1] ELSE 0 - qr[1] - 1

\* the largest r in a..b with r * r <= x (a * a <= x)
RECURSIVE SqrtIn(_, _, _)
SqrtIn(x, a, b) ==
    IF a = b THEN a
    ELSE LET mid == (a + b + 1) \div 2
         IN IF mid * mid <= x THEN SqrtIn(x, mid, b) ELSE SqrtIn(x, a, mid - 1)

\* k more decimal digits of a square root: root is the integer square root
\* of a number and rest what the number exceeds root * root by
RECURSIVE SqrtDigits(_, _, _)
SqrtDigits(root, rest, k) ==
    IF k = 0 THEN root
    ELSE LET t == CHOOSE d \in 0..9 :
                    /\ 20 * root * d + d * d <= 100 * rest
                    /\ \A u \in (d + 1)..9 : 20 * root * u + u * u > 100 * rest
         IN SqrtDigits(10 * root + t, 100 * rest - 20 * root * t - t * t, k - 1)

\* the square root of x with k decimal digits (in 10^-k)
Sqrt(x, k) ==
    LET root == SqrtIn(x, 0, 46340)
    IN SqrtDigits(root, x - root * root, k)

\* np.sqrt(252) in 1e-5: 1587450
Sqrt252 == Sqrt(252, 5)

\* line 104: annual return (percent) / 252, in 1e-8
DailyMean(annual_return) == ScaleDiv(annual_return, 6, 252)

\* line 102: annual volatility (percent) / np.sqrt(252), in 1e-8
DailyVol(annual_volatility) == ScaleDiv(annual_volatility, 11, Sqrt252)

\* the k-th standard normal deviate a call of the generator in state s
\* yields: one of -1, 0, 1
StandardNormal(s, k) == ((s + k) % 3) - 1

\* np.random.normal(loc, scale, size) on the global generator in state s:
\* the samples loc + scale * z, and the state the call leaves
RandomNormal(loc, scale, size, s) ==
    [samples |-> [k \in 1..size |-> loc + scale * StandardNormal(s, k)],
     state |-> (s + 1) % RngPeriod]

\* a price times (1 + r) for a return r in 1e-8.  A price is a pair
\* <<m, f>>: m millionths of a dollar plus f millionths of a millionth
\* (0 <= f < 10^6); the product is cut below 1e-11 dollar.  The price and
\* the return are split at their fourth digit to multiply them.
Grow(p, r) ==
    LET m1 == p[1] \div 10000
        m0 == p[1] % 10000
        r1 == r \div 10000
        r0 == r % 10000
        c == m1 * r0 + m0 * r1
        t == p[2] + (c % 10000) * 100 + (m0 * r0) \div 100
             + (p[2] * r1) \div 10000 + ((p[2] \div 100) * r0) \div 10^6
    IN <<p[1] + m1 * r1 + (c \div 10000) + (t \div 10^6), t % 10^6>>

\* line 105: current_price * (1 + daily_returns).cumprod()
\* the prices that compounding the returns r[a..b] onto the price p gives,
\* one per return (the range is halved to keep the evaluation shallow)
RECURSIVE Compound(_, _, _, _)
Compound(p, r, a, b) ==
    IF a > b THEN <<>>
    ELSE IF a = b THEN <<Grow(p, r[a])>>
    ELSE LET mid == (a + b) \div 2
             left == Compound(p, r, a, mid)
         IN left \o Compound(left[Len(left)], r, mid + 1, b)

\* the path of one ticker in millionths of a dollar (current_price is in
\* dollars)
PricePath(current_price, daily_returns) ==
    LET path == Compound(<<current_price * 10^6, 0>>, daily_returns, 1,
                         Len(daily_returns))
    IN [k \in DOMAIN path |-> path[k][1]]

\* the mean of the draws of column i (line 104): the portfolio's historical
\* annual return, for every ticker
DrawMean(stats, i) == DailyMean(stats.ret)

\* lines 100-105: the loop over the tickers from position i on; paths holds
\* the paths of the tickers before i, s is the generator's state.  Gives
\* the paths and the state the loop leaves.
RECURSIVE ProjectionLoop(_, _, _, _, _, _)
ProjectionLoop(p, i, stats, size, paths, s) ==
    IF i > Len(p) THEN [future_prices |-> paths, state |-> s]
    ELSE LET draw == RandomNormal(DrawMean(stats, i),
                                  DailyVol(stats.asset_vol[i]), size, s)
         IN ProjectionLoop(p, i + 1, stats, size,
                Append(paths, PricePath(p[i].price, draw.samples)),
                draw.state)

\* the sum of f[a..b] (the range is halved to keep the evaluation shallow)
RECURSIVE SumRange(_, _, _)
SumRange(f, a, b) ==
    IF a > b THEN 0
    ELSE IF a = b THEN f[a]
    ELSE SumRange(f, a, (a + b) \div 2) + SumRange(f, (a + b) \div 2 + 1, b)

\* line 111: future_prices_df.pct_change().dropna() of one column, in 1e-8:
\* a return per date but the first
PctChange(path) ==
    [k \in 1..(Len(path) - 1) |-> ScaleDiv(path[k + 1] - path[k], 8, path[k])]

\* line 112: future_returns.dot(pd.Series(weights)), in 1e-8 (w in
\* millionths)
ProjectedPortfolioReturns(paths, w) ==
    LET rets == [i \in DOMAIN paths |-> PctChange(paths[i])]
    IN IF paths = <<>> THEN <<>>
       ELSE [k \in DOMAIN rets[1] |->
               SumSeq([i \in DOMAIN rets |-> MulDiv(w[i], rets[i][k], One)])]

\* line 113: mean() * 252 of the series x (in 1e-8), in basis points
AnnualMean(x) ==
    LET n == Len(x)
        total == SumRange(x, 1, n)
        yearly == (total \div n) * 252 + ((total % n) * 252) \div n
    IN Round(yearly, 10000)

\* line 114: std() * np.sqrt(252) of the series x (in 1e-8; pandas divides
\* the squared deviations by n - 1), in basis points
AnnualStd(x) ==
    LET n == Len(x)
        total == SumRange(x, 1, n)
        dev == [k \in 1..n |-> Round(n * x[k] - total, 100 * n)]   \* in 1e-6
        sq == [k \in 1..n |-> dev[k] * dev[k]]
        var == SumRange([k \in 1..n |-> sq[k] \div (n - 1)], 1, n)
               + SumRange([k \in 1..n |-> sq[k] % (n - 1)], 1, n) \div (n - 1)
        std == Sqrt(var, 1)                                       \* in 1e-7
        yearly == MulDiv(std, Sqrt252, 10^5)                      \* in 1e-7
    IN Round(yearly, 1000)

\* lines 111-115: the projected metrics; the risk-free rate is in percent,
\* the Sharpe ratio in millionths
ProjectedMetrics(paths, w, rf) ==
    LET x == ProjectedPortfolioReturns(paths, w)
        ret == AnnualMean(x)
        vol == AnnualStd(x)
    IN [annual_return |-> ret, annual_volatility |-> vol,
        sharpe_ratio |-> Sharpe(ret, vol, rf * 100)]

\* bool() of a pandas Series: NDFrame.__bool__ raises ValueError ("The truth
\* value of a Series is ambiguous") for a Series of any length
SeriesTruth(b) == [raised |-> TRUE, value |-> b]

UnknownCondition ==
    [market_condition |-> "Unknown", market_volatility |-> 0, market_trend |-> 0]

\* lines 161-197 without the guard of line 164 and the handler of line 192
analyze_market_conditions_noguard(md) ==
    IF IsEmpty(md) THEN Raised("IndexError")
    ELSE Returned(UnknownCondition)

\* lines 161-197.  md is a one-column frame, so trend (line 176) is a
\* one-element Series, as lines 188-189 (.iloc[0]) expect, and line 179
\* applies `if` to the Series trend > 5.
analyze_market_conditions(md) ==
    IF IsEmpty(md) THEN Returned(UnknownCondition)
    ELSE LET trend == md.stats.trend
             up == SeriesTruth(trend > 5)
             down == SeriesTruth(trend < 0 - 5)
         IN IF up.raised THEN Returned(UnknownCondition)           \* line 192
            ELSE IF up.value
                 THEN Returned([market_condition |-> "Bullish",
                                market_volatility |-> md.stats.vol,
                                market_trend |-> trend])
            ELSE IF down.raised THEN Returned(UnknownCondition)    \* line 192
            ELSE Returned([market_condition |->
                               IF down.value THEN "Bearish" ELSE "Neutral",
                           market_volatility |-> md.stats.vol,
                           market_trend |-> trend])

\* lines 199-246
generate_portfolio_opinion(annual_return, annual_volatility, sharpe_ratio, b, max_drawdown, market_conditions) ==
    <<IF annual_return > 15 THEN "Strong return potential"
      ELSE IF annual_return > 10 THEN "Good return potential"
      ELSE IF annual_return > 5 THEN "Moderate return potential"
      ELSE "Low return potential">>
    \o <<IF annual_volatility < 15 THEN "Low volatility"
         ELSE IF annual_volatility < 25 THEN "Moderate volatility"
         ELSE "High volatility">>
    \o <<IF sharpe_ratio > 1500000 THEN "Excellent risk-adjusted returns"
         ELSE IF sharpe_ratio > 1000000 THEN "Good risk-adjusted returns"
         ELSE "Below-average risk-adjusted returns">>
    \o (IF b < 80 THEN <<"Low market sensitivity">>
        ELSE IF b > 120 THEN <<"High market sensitivity">> ELSE <<>>)
    \o (IF max_drawdown < 0 - 20 THEN <<"Significant drawdown risk">> ELSE <<>>)
    \o (IF market_conditions.market_condition = "Bearish"
        THEN <<"Current market conditions are bearish">>
        ELSE IF market_conditions.market_condition = "Bullish"
        THEN <<"Current market conditions are bullish">> ELSE <<>>)

\* lines 158-159: the handler of analyze_proposed_portfolio
analyze_reraise(exc) == Raised(exc)
analyze_except(exc) == Returned([error |-> "Error analyzing portfolio", exc |-> exc])

\* lines 401-402: the handler of recommend_stocks
recommend_except(exc) ==
    Returned([error |-> "Error generating recommendations", exc |-> exc])

(***************************************************************************)
(* portfolio_analyzer.py: recommend_stocks                                 *)
(***************************************************************************)
\* lines 11-22: self.sector_etfs in insertion order
sector_etfs ==
    << [etf |-> "XLK", sector |-> "Technology"],
       [etf |-> "XLF", sector |-> "Financials"],
       [etf |-> "XLV", sector |-> "Healthcare"],
       [etf |-> "XLE", sector |-> "Energy"],
       [etf |-> "XLI", sector |-> "Industrial"],
       [etf |-> "XLP", sector |-> "Consumer Staples"],
       [etf |-> "XLY", sector |-> "Consumer Discretionary"],
       [etf |-> "XLB", sector |-> "Materials"],
       [etf |-> "XLU", sector |-> "Utilities"],
       [etf |-> "XLRE", sector |-> "Real Estate"] >>

EtfNames == [i \in DOMAIN sector_etfs |-> sector_etfs[i].etf]

\* self.sector_etfs[etf]
SectorLabel(etf) ==
    sector_etfs[CHOOSE i \in DOMAIN sector_etfs : sector_etfs[i].etf = etf].sector

\* the correlation (hundredths) of each ETF's returns with the portfolio's:
\* the first three ETFs of the catalog correlate at -0.30 or 0.10 and the
\* others as CorrTail says, or every ETF correlates at 0.10
CorrTail ==
    [e \in Range(EtfNames) |->
        IF e = "XLE" THEN 40 ELSE IF e = "XLI" THEN 0 - 5
        ELSE IF e = "XLP" THEN 50 ELSE IF e = "XLY" THEN 0 - 60
        ELSE IF e = "XLB" THEN 70 ELSE IF e = "XLU" THEN 20 ELSE 0 - 90]
CorrStats ==
    {[e \in Range(EtfNames) |->
         IF e \in {"XLK", "XLF", "XLV"} THEN f[e] ELSE CorrTail[e]] :
       f \in [{"XLK", "XLF", "XLV"} -> {0 - 30, 10}]}
    \cup {[e \in Range(EtfNames) |-> 10]}

\* a stable sort of s in ascending order of the keys k (k[i] is s[i]'s key):
\* what sorted() and list.sort() do for totally ordered keys
StableSort(s, k) ==
    LET rank(i) == Cardinality({j \in DOMAIN s :
                        k[j] < k[i] \/ (k[j] = k[i] /\ j < i)}) + 1
    IN [p \in DOMAIN s |-> s[CHOOSE i \in DOMAIN s : rank(i) = p]]

\* s[:n] for n >= 0
Slice(s, n) == SubSeq(s, 1, Min(n, Len(s)))

\* lines 302-309: the (etf, corr) items of `correlations`, in catalog order,
\* for the ETFs that are columns of the ETF returns, when those returns share
\* a date with the portfolio's
CorrelationsAnyDates(etf_df, preturns) ==
    [i \in DOMAIN etf_df.cols |->
        [etf |-> etf_df.cols[i], corr |-> etf_df.stats[etf_df.cols[i]]]]
Correlations(etf_df, preturns) ==
    LET common == preturns \cap ReturnsIndex(etf_df)
        has(i) == EtfNames[i] \in Range(etf_df.cols) /\ common # {}
    IN [i \in 1..Cardinality({j \in DOMAIN EtfNames : has(j)}) |->
          LET e == EtfNames[CHOOSE j \in DOMAIN EtfNames :
                        has(j) /\ Cardinality({m \in 1..j : has(m)}) = i]
          IN [etf |-> e, corr |-> etf_df.stats[e]]]

\* line 312: sorted(correlations.items(), key=lambda x: abs(x[1]))[:3]
LowCorrLast(corrs) ==
    LET s == StableSort(corrs, [i \in DOMAIN corrs |-> 0 - Abs(corrs[i].corr)])
    IN Slice(s, 3)
LowCorrSectors(corrs) ==
    Slice(StableSort(corrs, [i \in DOMAIN corrs |-> Abs(corrs[i].corr)]), 3)

\* what yf.Ticker(etf).get_holdings() can do: raise, return None, or return
\* a frame with one row per constituent (its `ticker` column, in order)
\* of up to n rows
HoldingsOutcomes(n) ==
    {[kind |-> "raise", rows |-> <<>>], [kind |-> "none", rows |-> <<>>]}
    \cup {[kind |-> "frame", rows |-> r] : r \in SeqsUpTo(Tickers, n)}

\* lines 321, 374: holdings = etf_info.get_holdings(); a call that raises
\* leaves the name bound to what it was (h is None when no call is made)
Bound(old, h) == IF h = None THEN old ELSE IF h.kind = "raise" THEN old ELSE h

\* lines 324, 375: holdings.head(5)
Head5(rows) == Slice(rows, 5)

\* the statistics of a candidate's returns on the common dates: annualized
\* volatility (percent)
StockStats == { [vol |-> 20] }

\* what the download of one candidate's prices can do (its one column is
\* read by position, so its label is immaterial)
StockDownloads ==
    {[kind |-> "raise", index |-> {}, stats |-> None]}
    \cup {[kind |-> "multi", index |-> w, stats |-> s] :
              w \in {ThisYear, OlderYear}, s \in StockStats}

\* line 339: stock_returns.loc[common_dates].corr(portfolio_returns.loc[...])
\* on a DataFrame.  The first positional parameter of DataFrame.corr is
\* `method`; the Series handed in is compared with "pearson" and the truth
\* value of that comparison, a Series, is taken (see SeriesTruth).
DataFrameCorrOfSeries(stock_stats) == Returned(stock_stats.vol)
DataFrameCorr(stock_stats) ==
    IF SeriesTruth(FALSE).raised THEN Raised("ValueError")
    ELSE Returned(stock_stats.vol)

\* lines 342-355: the entry appended for a candidate (vol, b: the candidate's
\* volatility and "beta"; cv, cb: the portfolio's).  The two reductions are
\* in halves of the unit of their inputs, so that the halving of lines
\* 342-343 is exact: cv - (cv + vol) / 2 is (cv - vol) halves.
Recommendation(ticker, sector, vol, b, cv, cb) ==
    LET potential_volatility == cv + vol      \* in halves
        potential_beta == cb + b              \* in halves
    IN [ticker |-> ticker, sector |-> sector, volatility |-> vol, beta |-> b,
        volatility_reduction |-> 2 * cv - potential_volatility,
        beta_reduction |-> 2 * cb - potential_beta]

\* lines 325-355: the loop over the top holdings from row i on; stocks[i] is
\* what the download for row i does.  Gives the list, whether an exception
\* left the loop, and the rows whose prices were asked for (line 329).
RECURSIVE CandidateLoop(_, _, _, _, _, _, _, _, _)
CandidateLoop(rows, i, stocks, recs, sector, held, preturns, cv, cb) ==
    IF i > Len(rows) THEN [recs |-> recs, raised |-> FALSE, fetched |-> <<>>]
    ELSE IF rows[i] \in held
    THEN CandidateLoop(rows, i + 1, stocks, recs, sector, held, preturns, cv, cb)
    ELSE LET stock_data == get_price_data(<<rows[i]>>, stocks[i])
             common == preturns \cap ReturnsIndex(stock_data)
             b == DataFrameCorr(stock_data.stats)
             rest ==
                 IF IsEmpty(stock_data) \/ common = {}
                 THEN CandidateLoop(rows, i + 1, stocks, recs, sector, held,
                                    preturns, cv, cb)
                 ELSE IF b.kind = "raised"
                 THEN [recs |-> recs, raised |-> TRUE, fetched |-> <<>>]
                 ELSE CandidateLoop(rows, i + 1, stocks,
                          Append(recs, Recommendation(rows[i], sector,
                              stock_data.stats.vol, b.value, cv, cb)),
                          sector, held, preturns, cv, cb)
         IN [rest EXCEPT !.fetched = <<i>> \o @]

\* lines 317-357: one pass of the loop over low_corr_sectors; h is what the
\* holdings lookup does.  An exception anywhere in the pass ends the pass
\* (line 356), keeping what was appended before it.
SectorPass(etf, h, stocks, recs, held, preturns, cv, cb) ==
    IF h.kind # "frame" \/ h.rows = <<>> THEN recs
    ELSE CandidateLoop(Head5(h.rows), 1, stocks, recs, SectorLabel(etf), held,
                       preturns, cv, cb).recs

\* whether an exception of a candidate ended the pass (line 356)
SectorRaised(etf, h, stocks, recs, held, preturns, cv, cb) ==
    IF h.kind # "frame" \/ h.rows = <<>> THEN FALSE
    ELSE CandidateLoop(Head5(h.rows), 1, stocks, recs, SectorLabel(etf), held,
                       preturns, cv, cb).raised

\* the rows of the pass whose prices line 329 asked for
SectorFetched(etf, h, stocks, recs, held, preturns, cv, cb) ==
    IF h.kind # "frame" \/ h.rows = <<>> THEN <<>>
    ELSE CandidateLoop(Head5(h.rows), 1, stocks, recs, SectorLabel(etf), held,
                       preturns, cv, cb).fetched

\* lines 360-363: recommendations.sort(key=volatility_reduction +
\* beta_reduction, reverse=True); reverse keeps the order of equal keys.
\* The score is in halves of a hundredth, as the reductions are.
Score(r) == r.volatility_reduction + r.beta_reduction
sort_recommendations(recs) ==
    StableSort(recs, [i \in DOMAIN recs |-> 0 - Score(recs[i])])

\* line 391: sort first, then recommendations[:num_recommendations]
top_before_sort(recs, n) == sort_recommendations(Slice(recs, n))
top_recommendations(recs, n) == Slice(sort_recommendations(recs), n)

\* lines 375-384: the first two constituents of the top holdings that are not
\* held
fallback_unfiltered(rows, held, sector) ==
    LET top == Head5(rows)
    IN [i \in 1..Min(2, Len(top)) |-> [ticker |-> top[i], sector |-> sector]]
fallback_from(rows, held, sector) ==
    LET free == SelectSeq(Head5(rows), LAMBDA t : t \notin held)
    IN [i \in 1..Min(2, Len(free)) |-> [ticker |-> free[i], sector |-> sector]]

\* lines 366-388: the fallback when nothing was scored; h is what the second
\* holdings lookup, for the best sector, does
Fallback(recs, low, h, held) ==
    IF recs = <<>> /\ low # <<>> /\ h.kind = "frame" /\ h.rows # <<>>
    THEN LET f == fallback_from(h.rows, held, SectorLabel(low[1].etf))
         IN [suggestions |-> f,
             message |-> IF f # <<>>
                         THEN <<"No suitable recommendations found", SectorLabel(low[1].etf)>>
                         ELSE None]
    ELSE [suggestions |-> <<>>, message |-> None]

(***************************************************************************)
(* The requests.  One request runs at a time, from the call to the return; *)
(* each action is the code between two calls to a provider.                *)
(***************************************************************************)
ErrorDict(msg) == [error |-> msg, exc |-> "none"]

IsError(d) == "error" \in DOMAIN d

Init ==
    /\ pc = "idle" /\ entry = "none" /\ outcome = None
    /\ risk_free_rate = 5
    /\ rng \in 0..(RngPeriod - 1) /\ first_run = None /\ stock_fetches = None
    /\ processed = None
    /\ price_data = None /\ init_guess = None /\ solver_calls = 0 /\ result = None
    /\ portfolio_data = None /\ weights = None /\ historical_data = None
    /\ market_data = None /\ hist = None /\ beta = None
    /\ dates = None /\ future_prices = None /\ projected = None
    /\ num_recommendations = None /\ current_analysis = None
    /\ current_volatility = None /\ current_beta = None /\ etf_data = None
    /\ portfolio_returns = None /\ correlations = None
    /\ low_corr_sectors = None /\ sector_pos = 0 /\ recommendations = None
    /\ holdings = None /\ holdings_lookup = None

\* optimizer.py lines 31-38: the statistics, the number of assets (a mean per
\* column) and the starting point; 1.0 / 0 raises ZeroDivisionError
OptimizeCall ==
    /\ pc = "idle"
    /\ \E pd \in OptimizerInputs :
         LET num_assets == Len(pd.cols)
         IN /\ entry' = "optimize" /\ price_data' = pd
            /\ IF num_assets = 0
               THEN /\ init_guess' = None
                    /\ outcome' = Raised("ZeroDivisionError")
                    /\ pc' = "done"
               ELSE /\ init_guess' = InitGuess(num_assets)
                    /\ outcome' = None
                    /\ pc' = "opt_solve"
    /\ UNCHANGED <<risk_free_rate, rng, first_run, stock_fetches, processed, solver_calls, result, anVars, recVars>>

\* optimizer.py lines 40-60: one call of the solver, then the result or the
\* ValueError
OptimizeSolve ==
    /\ pc = "opt_solve"
    /\ \E res \in Minimize(init_guess, bounds(Len(init_guess))) :
         /\ result' = res
         /\ solver_calls' = solver_calls + 1
         /\ outcome' = optimize_result(res, init_guess)
    /\ pc' = "done"
    /\ UNCHANGED <<entry, risk_free_rate, rng, first_run, stock_fetches, processed, price_data, init_guess, anVars, recVars>>

AnalyzeCall ==
    /\ pc = "idle"
    /\ \E p \in Portfolios : portfolio_data' = p
    /\ entry' = "analyze" /\ pc' = "an_start"
    /\ UNCHANGED <<outcome, risk_free_rate, rng, first_run, stock_fetches, processed, optVars, anLocals, recVars>>

\* line 261: recommend_stocks starts by calling analyze_proposed_portfolio
RecommendCall ==
    /\ pc = "idle"
    /\ \E p \in Portfolios : portfolio_data' = p
    /\ \E n \in 0..MaxNumCall : num_recommendations' = n
    /\ entry' = "recommend" /\ pc' = "an_start"
    /\ UNCHANGED <<outcome, risk_free_rate, rng, first_run, stock_fetches, processed, optVars, anLocals, current_analysis,
                   recLocals>>

\* analyze_proposed_portfolio ends with o: to its caller, or (line 261) into
\* recommend_stocks, whose handler (line 401) takes an exception
AnalyzeExit(o) ==
    IF entry = "analyze"
    THEN outcome' = o /\ pc' = "done" /\ UNCHANGED current_analysis
    ELSE IF o.kind = "raised"
    THEN outcome' = recommend_except(o.exc) /\ pc' = "done"
         /\ UNCHANGED current_analysis
    ELSE current_analysis' = o.value /\ pc' = "rec_etf" /\ UNCHANGED outcome

\* lines 36-51: the weights, then the historical prices
AnalyzeFetchHistory ==
    /\ pc = "an_start"
    /\ LET w == PositionWeights(portfolio_data)
           tickers == Keys(portfolio_data)
       IN IF w.kind = "raised"
          THEN /\ AnalyzeExit(analyze_except(w.exc))
               /\ UNCHANGED <<weights, historical_data>>
          ELSE \E dl \in Downloads(Kinds(tickers), {{}, ThisYear}, HistStats(Len(tickers))) :
                 LET hd == get_price_data(tickers, dl)
                 IN /\ weights' = w.value
                    /\ historical_data' = hd
                    /\ (tickers = <<>> => dl.kind = "raise")
                    /\ IF IsEmpty(hd)
                       THEN AnalyzeExit(Returned(ErrorDict(
                                "Failed to fetch historical price data")))
                       ELSE pc' = "an_market"
                            /\ UNCHANGED <<outcome, current_analysis>>
    /\ UNCHANGED <<entry, risk_free_rate, rng, first_run, stock_fetches, processed, optVars, portfolio_data, market_data,
                   hist, beta, dates, future_prices, projected, num_recommendations,
                   recLocals>>

\* line 85 under the guards of lines 76 and 80; line 74 otherwise
Beta(hd, md) ==
    IF ~IsEmpty(md) /\ ReturnsIndex(hd) \cap ReturnsIndex(md) # {}
    THEN md.stats.beta ELSE 100

\* lines 59-67 and 140-145: the historical metrics of the result
HistoricalMetrics(s, rf) ==
    [annual_return |-> s.ret, annual_volatility |-> s.vol,
     sharpe_ratio |-> Sharpe(s.ret, s.vol, rf), max_drawdown |-> s.mdd]

\* lines 53-85: the historical metrics, then the benchmark's prices and beta
AnalyzeFetchMarket ==
    /\ pc = "an_market"
    /\ IF ~DotAligned(historical_data, portfolio_data)
       THEN /\ AnalyzeExit(analyze_except("ValueError"))
            /\ UNCHANGED <<market_data, hist, beta>>
       ELSE \E dl \in Downloads({"multi"}, {ThisYear, OlderYear}, MarketStats) :
              LET md == get_price_data(<<"^GSPC">>, dl)
                  s == historical_data.stats
              IN /\ hist' = HistoricalMetrics(s, risk_free_rate)
                 /\ market_data' = md
                 /\ beta' = Beta(historical_data, md)
                 /\ pc' = "an_project"
                 /\ UNCHANGED <<outcome, current_analysis>>
    /\ UNCHANGED <<entry, risk_free_rate, rng, first_run, stock_fetches, processed, optVars, portfolio_data, weights,
                   historical_data, dates, future_prices, projected,
                   num_recommendations, recLocals>>

\* lines 87-156: the date axis, the projection (which draws from the global
\* generator), the market conditions, the opinion, the result
AnalyzeFinish ==
    /\ pc = "an_project"
    /\ \E wd \in Weekdays :
         LET ds == ProjectionDates(wd)
             pr == ProjectionLoop(portfolio_data, 1, historical_data.stats,
                                  Len(ds), <<>>, rng)
             pj == ProjectedMetrics(pr.future_prices, weights, risk_free_rate)
             mc == analyze_market_conditions(market_data)
         IN /\ dates' = ds
            /\ future_prices' = pr.future_prices
            /\ rng' = pr.state
            /\ projected' = pj
            /\ IF mc.kind = "raised"
               THEN AnalyzeExit(analyze_except(mc.exc))
               ELSE AnalyzeExit(Returned(
                   [portfolio_metrics |->
                       [total_investment |-> TotalInvestment(portfolio_data),
                        weights |-> weights,
                        current_value |-> [i \in DOMAIN portfolio_data |->
                            portfolio_data[i].price * portfolio_data[i].shares],
                        historical_metrics |-> hist,
                        projected_metrics |-> pj,
                        beta |-> beta,
                        future_prices |->
                            [Date |-> ds, prices |-> pr.future_prices]],
                    market_conditions |-> mc.value,
                    opinion |-> generate_portfolio_opinion(
                        hist.annual_return, hist.annual_volatility,
                        hist.sharpe_ratio, beta, hist.max_drawdown, mc.value)]))
    /\ UNCHANGED <<entry, risk_free_rate, first_run, stock_fetches, processed, optVars, portfolio_data,
                   weights, historical_data, market_data, hist, beta,
                   num_recommendations, recLocals>>

\* lines 262-279: the analysis' error (line 263 hands back the analysis'
\* message as it is, the exception's text included) or its metrics, then the
\* ETF prices.
\* The frame of analyze_proposed_portfolio is gone; its result stays bound to
\* current_analysis.
RecommendFetchEtf ==
    /\ pc = "rec_etf"
    /\ weights' = None /\ historical_data' = None /\ market_data' = None
    /\ hist' = None /\ beta' = None
    /\ dates' = None /\ future_prices' = None /\ projected' = None
    /\ IF IsError(current_analysis)
       THEN /\ outcome' = Returned([error |-> current_analysis.error,
                                     exc |-> current_analysis.exc])
            /\ pc' = "done"
            /\ UNCHANGED <<current_volatility, current_beta, etf_data>>
       ELSE \E dl \in Downloads({"multi"}, {{}, ThisYear, OlderYear}, CorrStats) :
              LET etf == get_price_data(EtfNames, dl)
                  current_metrics == current_analysis.portfolio_metrics
              IN /\ current_beta' = current_metrics.beta
                 /\ current_volatility' =
                        current_metrics.historical_metrics.annual_volatility
                 /\ etf_data' = etf
                 /\ IF IsEmpty(etf)
                    THEN outcome' = Returned(ErrorDict(
                             "Failed to fetch sector ETF data"))
                         /\ pc' = "done"
                    ELSE pc' = "rec_prices" /\ UNCHANGED outcome
    /\ UNCHANGED <<entry, risk_free_rate, rng, first_run, stock_fetches, processed, optVars, portfolio_data,
                   num_recommendations, current_analysis, portfolio_returns,
                   correlations, low_corr_sectors, sector_pos, recommendations,
                   holdings, holdings_lookup>>

\* lines 281-314: the portfolio's prices again, its returns under the
\* position weights, the correlations and the low-correlation sectors
RecommendFetchPrices ==
    /\ pc = "rec_prices"
    /\ LET tickers == Keys(portfolio_data)
       IN \E dl \in Downloads(Kinds(tickers), {{}, ThisYear}, {None}) :
            LET cp == get_price_data(tickers, dl)
                corrs == Correlations(etf_data, ReturnsIndex(cp))
            IN IF IsEmpty(cp)
               THEN /\ outcome' = Returned(ErrorDict(
                           "Failed to fetch current portfolio price data"))
                    /\ pc' = "done"
                    /\ UNCHANGED <<weights, portfolio_returns, correlations,
                                   low_corr_sectors, sector_pos, recommendations>>
               ELSE IF ~DotAligned(cp, portfolio_data)
               THEN /\ outcome' = recommend_except("ValueError")
                    /\ pc' = "done"
                    /\ weights' = PositionWeights(portfolio_data).value
                    /\ UNCHANGED <<portfolio_returns, correlations,
                                   low_corr_sectors, sector_pos, recommendations>>
               ELSE /\ weights' = PositionWeights(portfolio_data).value
                    /\ portfolio_returns' = ReturnsIndex(cp)
                    /\ correlations' = corrs
                    /\ low_corr_sectors' = LowCorrSectors(corrs)
                    /\ sector_pos' = 1
                    /\ recommendations' = <<>>
                    /\ pc' = "rec_sector"
                    /\ UNCHANGED outcome
    /\ UNCHANGED <<entry, risk_free_rate, rng, first_run, stock_fetches, processed, optVars, portfolio_data,
                   historical_data, market_data, hist, beta, dates,
                   future_prices, projected,
                   num_recommendations, current_analysis, current_volatility,
                   current_beta, etf_data, holdings, holdings_lookup>>

Held == Range(Keys(portfolio_data))

\* lines 316-357: one pass of the loop over low_corr_sectors
RecommendSector ==
    /\ pc = "rec_sector"
    /\ sector_pos <= Len(low_corr_sectors)
    /\ \E h \in HoldingsOutcomes(MaxRows) :
         \E stocks \in [1..Len(Head5(h.rows)) -> StockDownloads] :
            /\ holdings' = Bound(holdings, h)                      \* line 321
            /\ holdings_lookup' = h
            /\ recommendations' =
                   SectorPass(low_corr_sectors[sector_pos].etf, h, stocks,
                              recommendations, Held, portfolio_returns,
                              current_volatility, current_beta)
    /\ sector_pos' = sector_pos + 1
    /\ UNCHANGED <<pc, entry, outcome, risk_free_rate, rng, first_run, stock_fetches, processed, optVars, anVars,
                   num_recommendations, current_analysis, current_volatility,
                   current_beta, etf_data, portfolio_returns, correlations,
                   low_corr_sectors>>

\* lines 359-399: the sort, the fallback (with its own holdings lookup for
\* the best sector) and the result
RecommendFinish ==
    /\ pc = "rec_sector"
    /\ sector_pos > Len(low_corr_sectors)
    /\ \E h \in (IF recommendations = <<>> /\ low_corr_sectors # <<>>
                 THEN HoldingsOutcomes(MaxFallbackRows) ELSE {None}) :
         LET fb == Fallback(sort_recommendations(recommendations),
                            low_corr_sectors, h, Held)
         IN /\ holdings' = Bound(holdings, h)                      \* line 374
            /\ holdings_lookup' = h
            /\ outcome' = Returned(
                   [recommendations |->
                        top_recommendations(recommendations, num_recommendations),
                    analysis |->
                        [current_volatility |-> current_volatility,
                         current_beta |-> current_beta,
                         low_correlation_sectors |->
                             [i \in DOMAIN low_corr_sectors |->
                                 SectorLabel(low_corr_sectors[i].etf)]],
                    fallback_message |-> fb.message,
                    fallback_suggestions |-> fb.suggestions])
    /\ recommendations' = sort_recommendations(recommendations)
    /\ pc' = "done"
    /\ UNCHANGED <<entry, risk_free_rate, rng, first_run, stock_fetches, processed, optVars, anVars, num_recommendations,
                   current_analysis, current_volatility, current_beta, etf_data,
                   portfolio_returns, correlations, low_corr_sectors, sector_pos>>

\* the request is over; the next one starts from fresh frames
Return ==
    /\ pc = "done"
    /\ pc' = "idle" /\ entry' = "none" /\ outcome' = None
    /\ price_data' = None /\ init_guess' = None /\ solver_calls' = 0
    /\ result' = None
    /\ portfolio_data' = None /\ weights' = None /\ historical_data' = None
    /\ market_data' = None /\ hist' = None /\ beta' = None
    /\ dates' = None /\ future_prices' = None /\ projected' = None
    /\ num_recommendations' = None /\ current_analysis' = None
    /\ current_volatility' = None /\ current_beta' = None /\ etf_data' = None
    /\ portfolio_returns' = None /\ correlations' = None
    /\ low_corr_sectors' = None /\ sector_pos' = 0 /\ recommendations' = None
    /\ holdings' = None /\ holdings_lookup' = None
    /\ UNCHANGED <<risk_free_rate, rng, first_run, stock_fetches, processed>>

Next ==
    \/ OptimizeCall
    \/ OptimizeSolve
    \/ AnalyzeCall
    \/ RecommendCall
    \/ AnalyzeFetchHistory
    \/ AnalyzeFetchMarket
    \/ AnalyzeFinish
    \/ RecommendFetchEtf
    \/ RecommendFetchPrices
    \/ RecommendSector
    \/ RecommendFinish
    \/ Return

Spec == Init /\ [][Next]_vars

(***************************************************************************)
(* The sort and the cut of lines 359-391 as functions of the list they     *)
(* are handed, applied to lists drawn from bounded sets: entries as line   *)
(* 345 builds them.  The drawn lists are more than the runs of             *)
(* recommend_stocks hand to line 360: the loop of lines 316-357 never      *)
(* appends (its line 339 raises for every candidate it reaches), so that   *)
(* list is empty in every run, and the empty list is among the drawn       *)
(* ones.  What holds of the sort and the cut on every drawn list holds of  *)
(* them in every run; what fails on a drawn list need not fail in a run.   *)
(***************************************************************************)
\* the portfolio of the drawn runs, its volatility (percent) and beta
\* (hundredths) as lines 266-267 read them from its analysis
SortPortfolio == <<Pos("AAA", 10, 1)>>
SortAnalysis == [current_volatility |-> 50, current_beta |-> 100]

\* entries as line 345 builds them.  The figures are binary fractions (0.25,
\* 0.5, 0.75, 1.0), which floats hold exactly, so that lines 342-363 compute
\* on them without rounding: the scores are 0.25, 0.25 and 0.5 (50, 50 and
\* 100 halves of a hundredth).
DrawnEntries ==
    {Recommendation(t, "Technology", c[1], c[2],
                        SortAnalysis.current_volatility,
                        SortAnalysis.current_beta) :
         t \in {"BBB", "CCC"}, c \in {<<25, 75>>, <<75, 25>>, <<25, 25>>}}

InitSort ==
    /\ pc = "rec_sector" /\ entry = "recommend" /\ outcome = None
    /\ risk_free_rate = 5
    /\ rng \in 0..(RngPeriod - 1) /\ first_run = None /\ stock_fetches = None
    /\ processed = None
    /\ price_data = None /\ init_guess = None /\ solver_calls = 0 /\ result = None
    /\ portfolio_data = SortPortfolio
    /\ weights = PositionWeights(SortPortfolio).value
    /\ historical_data = None /\ market_data = None /\ hist = None
    /\ beta = None /\ dates = None /\ future_prices = None /\ projected = None
    /\ num_recommendations \in 0..MaxNum
    /\ current_analysis = None
    /\ current_volatility = SortAnalysis.current_volatility
    /\ current_beta = SortAnalysis.current_beta
    /\ etf_data = [cols |-> EtfNames, index |-> ThisYear,
                   stats |-> [e \in Range(EtfNames) |-> 10]]
    /\ portfolio_returns = ReturnsIndex(etf_data)
    /\ correlations = Correlations(etf_data, portfolio_returns)
    /\ low_corr_sectors = LowCorrSectors(correlations)
    /\ sector_pos = Len(low_corr_sectors) + 1
    /\ recommendations \in SeqsUpTo(DrawnEntries, MaxCands)
    /\ holdings = None /\ holdings_lookup = None

NextSort == RecommendFinish

SpecSort == InitSort /\ [][NextSort]_vars

(***************************************************************************)
(* The loop over the sectors with the provider's calls on record.          *)
(* SpecPass starts recommend_stocks at line 315; each pass of the loop     *)
(* records the constituents lookup it got and the rows whose prices it     *)
(* asked for.                                                              *)
(***************************************************************************)
InitPass ==
    /\ pc = "rec_sector" /\ entry = "recommend" /\ outcome = None
    /\ risk_free_rate = 5
    /\ rng \in 0..(RngPeriod - 1) /\ first_run = None /\ stock_fetches = None
    /\ processed = None
    /\ price_data = None /\ init_guess = None /\ solver_calls = 0 /\ result = None
    /\ portfolio_data \in {p \in Portfolios : p # <<>> /\ TotalInvestment(p) > 0}
    /\ weights = PositionWeights(portfolio_data).value
    /\ historical_data = None /\ market_data = None /\ hist = None
    /\ beta = None /\ dates = None /\ future_prices = None /\ projected = None
    /\ num_recommendations \in 0..MaxNumCall
    /\ current_analysis = None
    /\ current_volatility = SortAnalysis.current_volatility
    /\ current_beta = SortAnalysis.current_beta
    /\ \E dl \in Downloads({"multi"}, {ThisYear}, CorrStats) :
          /\ dl.kind = "multi"
          /\ etf_data = get_price_data(EtfNames, dl)
    /\ portfolio_returns = ReturnsIndex(etf_data)
    /\ correlations = Correlations(etf_data, portfolio_returns)
    /\ low_corr_sectors = LowCorrSectors(correlations)
    /\ sector_pos = 1
    /\ recommendations = <<>>
    /\ holdings = None /\ holdings_lookup = None

\* lines 316-357: one pass of the loop over low_corr_sectors, as
\* RecommendSector, keeping the lookup's outcome (line 321) and the rows
\* whose prices were asked for (line 329)
RecommendSectorObserved ==
    /\ pc = "rec_sector"
    /\ sector_pos <= Len(low_corr_sectors)
    /\ \E h \in HoldingsOutcomes(MaxPassRows) :
         \E stocks \in [1..Len(Head5(h.rows)) -> StockDownloads] :
            /\ recommendations' =
                   SectorPass(low_corr_sectors[sector_pos].etf, h, stocks,
                              recommendations, Held, portfolio_returns,
                              current_volatility, current_beta)
            /\ stock_fetches' =
                   SectorFetched(low_corr_sectors[sector_pos].etf, h, stocks,
                                 recommendations, Held, portfolio_returns,
                                 current_volatility, current_beta)
            /\ holdings' = Bound(holdings, h)
            /\ holdings_lookup' = h
    /\ sector_pos' = sector_pos + 1
    /\ UNCHANGED <<pc, entry, outcome, risk_free_rate, rng, first_run,
                   processed, optVars, anVars, num_recommendations,
                   current_analysis,
                   current_volatility, current_beta, etf_data,
                   portfolio_returns, correlations, low_corr_sectors>>

NextPass == RecommendSectorObserved \/ RecommendFinish

SpecPass == InitPass /\ [][NextPass]_vars

(***************************************************************************)
(* The loop of lines 316-357 with its passes on record, and the same loop  *)
(* taken in any order.  `processed` keeps, for each pass, the sector's     *)
(* place in low_corr_sectors, whether its rows were taken in another order *)
(* than the frame's, whether a candidate's exception ended it (line 356),  *)
(* and the entries that the pass appends at line 345 when its rows are     *)
(* taken in the frame's order.  SpecLoop takes the sectors in the order of *)
(* low_corr_sectors and the rows in the order of the frame, as the source  *)
(* does.  SpecOrder takes the sectors in any order and the rows of a       *)
(* sector in any order, each row with the download it gets in the source,  *)
(* and a candidate's exception still ends the pass of its sector, so that  *)
(* the order decides which candidates are reached.                         *)
(***************************************************************************)

\* the lookups of the recorded passes: a failed one, one without a frame,
\* and frames of up to MaxPassRows rows of two constituents, one of them
\* held by the larger portfolio
LoopLookups ==
    {h \in HoldingsOutcomes(MaxPassRows) : Range(h.rows) \subseteq {"BBB", "CCC"}}

\* the ETF returns of the recorded passes: the profile of CorrStats that
\* selects Industrial, Technology and Financials, in that order
LoopStats ==
    {st \in CorrStats : st["XLK"] = 10 /\ st["XLF"] = 10 /\ st["XLV"] = 0 - 30}

\* recommend_stocks at line 316, for either portfolio with a position of
\* value, on ETF returns that overlap the portfolio's
InitLoop ==
    /\ pc = "rec_sector" /\ entry = "recommend" /\ outcome = None
    /\ risk_free_rate = 5
    /\ rng = 0 /\ first_run = None /\ stock_fetches = None
    /\ processed = <<>>
    /\ price_data = None /\ init_guess = None /\ solver_calls = 0 /\ result = None
    /\ portfolio_data \in {p \in Portfolios : p # <<>> /\ TotalInvestment(p) > 0}
    /\ weights = PositionWeights(portfolio_data).value
    /\ historical_data = None /\ market_data = None /\ hist = None
    /\ beta = None /\ dates = None /\ future_prices = None /\ projected = None
    /\ num_recommendations \in 1..MaxNumLoop
    /\ current_analysis = None
    /\ current_volatility = SortAnalysis.current_volatility
    /\ current_beta = SortAnalysis.current_beta
    /\ \E dl \in Downloads({"multi"}, {ThisYear}, LoopStats) :
          /\ dl.kind = "multi"
          /\ etf_data = get_price_data(EtfNames, dl)
    /\ portfolio_returns = ReturnsIndex(etf_data)
    /\ correlations = Correlations(etf_data, portfolio_returns)
    /\ low_corr_sectors = LowCorrSectors(correlations)
    /\ sector_pos = 1
    /\ recommendations = <<>>
    /\ holdings = None /\ holdings_lookup = None

\* the rows of a lookup (and what belongs to them) in the order f
Reordered(rows, f) == [k \in DOMAIN rows |-> rows[f[k]]]

\* the order of the frame over n rows
Identity(n) == [k \in 1..n |-> k]

\* the places of low_corr_sectors whose pass is still to come
Unprocessed ==
    {i \in DOMAIN low_corr_sectors :
        \A k \in DOMAIN processed : processed[k].pos # i}

\* lines 317-357: the pass of the sector at place i, its lookup doing h, its
\* rows taken in the order f and the download of row k doing stocks[k]
SectorStep(i, h, stocks, f) ==
    LET taken == [h EXCEPT !.rows = Reordered(Head5(h.rows), f)]
    IN /\ pc = "rec_sector"
       /\ sector_pos <= Len(low_corr_sectors)
       /\ recommendations' =
              SectorPass(low_corr_sectors[i].etf, taken, Reordered(stocks, f),
                         recommendations, Held, portfolio_returns,
                         current_volatility, current_beta)
       /\ processed' =
              Append(processed,
                  [pos |-> i,
                   reordered |-> f # Identity(Len(f)),
                   raised |->
                       SectorRaised(low_corr_sectors[i].etf, taken,
                           Reordered(stocks, f), <<>>, Held, portfolio_returns,
                           current_volatility, current_beta),
                   added |->
                       SectorPass(low_corr_sectors[i].etf, h, stocks, <<>>,
                           Held, portfolio_returns, current_volatility,
                           current_beta)])
       /\ holdings' = Bound(holdings, h)                            \* line 321
       /\ holdings_lookup' = h
       /\ sector_pos' = sector_pos + 1
       /\ UNCHANGED <<pc, entry, outcome, risk_free_rate, rng, first_run,
                      stock_fetches, optVars, anVars, num_recommendations,
                      current_analysis, current_volatility, current_beta,
                      etf_data, portfolio_returns, correlations,
                      low_corr_sectors>>

\* lines 316-357: the next pass of the loop, as the source takes it
RecommendSectorInOrder ==
    /\ sector_pos \in Unprocessed
    /\ \E h \in LoopLookups :
         \E stocks \in [1..Len(Head5(h.rows)) -> StockDownloads] :
            SectorStep(sector_pos, h, stocks, Identity(Len(Head5(h.rows))))

NextLoop == RecommendSectorInOrder \/ RecommendFinish

SpecLoop == InitLoop /\ [][NextLoop]_vars

\* lines 316-357: the pass of any sector still to come, its rows in any
\* order
RecommendSectorAnyOrder ==
    \E i \in Unprocessed :
       \E h \in LoopLookups :
          \E stocks \in [1..Len(Head5(h.rows)) -> StockDownloads] :
             \E f \in Permutations(1..Len(Head5(h.rows))) :
                SectorStep(i, h, stocks, f)

NextOrder == RecommendSectorAnyOrder \/ RecommendFinish

SpecOrder == InitLoop /\ [][NextOrder]_vars

(***************************************************************************)
(* An analysis run twice on the same holdings and the same market data,    *)
(* in one process: a caller keeps the projection of the first run and      *)
(* calls analyze_proposed_portfolio again.  SpecRepeat starts both runs at *)
(* line 87, with the downloads and the historical metrics of lines 47-85   *)
(* drawn from bounded sets.                                                *)
(***************************************************************************)
InitRepeat ==
    /\ pc = "an_project" /\ entry = "analyze" /\ outcome = None
    /\ risk_free_rate = 5
    /\ rng \in 0..(RngPeriod - 1) /\ first_run = None /\ stock_fetches = None
    /\ processed = None
    /\ price_data = None /\ init_guess = None /\ solver_calls = 0 /\ result = None
    /\ portfolio_data \in {p \in Portfolios : p # <<>> /\ TotalInvestment(p) > 0}
    /\ weights = PositionWeights(portfolio_data).value
    /\ \E dl \in Downloads({"multi"}, {ThisYear},
                            HistStats(Len(portfolio_data))) :
          /\ dl.kind = "multi"
          /\ historical_data = get_price_data(Keys(portfolio_data), dl)
    /\ \E dl \in Downloads({"multi"}, {ThisYear, OlderYear}, MarketStats) :
          market_data = get_price_data(<<"^GSPC">>, dl)
    /\ hist = HistoricalMetrics(historical_data.stats, risk_free_rate)
    /\ beta = Beta(historical_data, market_data)
    /\ dates = None /\ future_prices = None /\ projected = None
    /\ num_recommendations = None /\ current_analysis = None
    /\ current_volatility = None /\ current_beta = None /\ etf_data = None
    /\ portfolio_returns = None /\ correlations = None
    /\ low_corr_sectors = None /\ sector_pos = 0 /\ recommendations = None
    /\ holdings = None /\ holdings_lookup = None

\* the caller keeps the first run's future_prices and calls again with the
\* same holdings; the provider serves the same data
RepeatAnalysis ==
    /\ pc = "done" /\ entry = "analyze" /\ first_run = None
    /\ outcome.kind = "returned" /\ ~IsError(outcome.value)
    /\ first_run' = outcome.value.portfolio_metrics.future_prices
    /\ pc' = "an_project" /\ outcome' = None
    /\ dates' = None /\ future_prices' = None /\ projected' = None
    /\ UNCHANGED <<entry, risk_free_rate, rng, stock_fetches, processed, optVars,
                   portfolio_data, weights, historical_data, market_data, hist,
                   beta, recVars>>

NextRepeat == AnalyzeFinish \/ RepeatAnalysis

SpecRepeat == InitRepeat /\ [][NextRepeat]_vars

(***************************************************************************)
(* The claims.                                                             *)
(***************************************************************************)
OptimizeDone == pc = "done" /\ entry = "optimize"

\* C1: whenever optimize_portfolio returns, the weight vector has one entry
\* per ticker, every entry lies in [0, 1] and the entries sum to 1 within
\* 1e-6.
C1_WeightsFeasible ==
    (OptimizeDone /\ outcome.kind = "returned") =>
        LET w == outcome.value.weights
        IN /\ Len(w) = Len(price_data.cols)
           /\ \A i \in DOMAIN w : 0 <= w[i] /\ w[i] <= One
           /\ Abs(SumSeq(w) - One) <= Tol

\* a two-asset optimization returned weights off the grid whose sum is not
\* exactly 1
C1_Witness ==
    /\ OptimizeDone /\ outcome.kind = "returned"
    /\ Len(outcome.value.weights) = 2
    /\ outcome.value.weights[1] > 0 /\ outcome.value.weights[2] > 0
    /\ SumSeq(outcome.value.weights) # One

(* C2: analyze_proposed_portfolio and recommend_stocks never raise: each
   returns a success result or a result carrying an "error" description,
   for every portfolio (the empty one and one of zero total value
   included) and every provider outcome. *)
C2_NeverRaise ==
    (pc = "done" /\ entry \in {"analyze", "recommend"}) =>
        /\ outcome.kind = "returned"
        /\ \/ IsError(outcome.value)
           \/ entry = "analyze" /\ "portfolio_metrics" \in DOMAIN outcome.value
           \/ entry = "recommend" /\ "recommendations" \in DOMAIN outcome.value

\* an exception inside the analysis (the division by a zero total) came
\* back as an error result
C2_Witness ==
    /\ pc = "done" /\ entry = "analyze"
    /\ outcome.kind = "returned" /\ IsError(outcome.value)
    /\ outcome.value.exc = "ZeroDivisionError"
    /\ TotalInvestment(portfolio_data) = 0 /\ portfolio_data # <<>>

\* C3: handed the provider's failure value, an empty price table,
\* optimize_portfolio fails with DataUnavailableError and with no other
\* error (not a division by zero).
C3_EmptyTableDataUnavailable ==
    (OptimizeDone /\ IsEmpty(price_data)) =>
        outcome = Raised("DataUnavailableError")

(* C4: optimize_portfolio calls the solver exactly once, started at the
   uniform allocation 1/N; when the solver reports non-convergence it
   raises its optimization error (ValueError "Optimization failed.") and
   returns no weights: no retry, no fallback allocation. *)
C4_SolverOnceNoFallback ==
    (OptimizeDone /\ ~IsEmpty(price_data)) =>
        LET n == Len(price_data.cols)
        IN /\ solver_calls = 1
           /\ Len(init_guess) = n
           /\ \A i \in 1..n : /\ init_guess[i] * n <= One
                              /\ One < (init_guess[i] + 1) * n
           /\ ~result.success =>
                  /\ outcome.kind = "raised"
                  /\ outcome.exc = "ValueError: Optimization failed."

\* the solver reported non-convergence on a two-asset table
C4_Witness ==
    /\ OptimizeDone /\ ~IsEmpty(price_data) /\ Len(price_data.cols) = 2
    /\ solver_calls = 1 /\ ~result.success /\ outcome.kind = "raised"

RecommendReturned ==
    /\ pc = "done" /\ entry = "recommend"
    /\ outcome.kind = "returned" /\ ~IsError(outcome.value)

\* the sum the list is sorted by has no equal neighbours in the list
StrictlyDescending(r) ==
    \A i \in 1..(Len(r) - 1) : Score(r[i]) > Score(r[i + 1])

(* C5: the list returned under "recommendations" is strictly descending by
   volatility_reduction + beta_reduction: of two adjacent entries the
   earlier has the strictly larger sum.  It holds because the list has no
   two entries: line 339 raises for every candidate with prices, line 356
   drops it, and nothing is ever appended at line 345. *)
C5_StrictlyDescending ==
    RecommendReturned =>
        /\ StrictlyDescending(outcome.value.recommendations)
        /\ processed # None => StrictlyDescending(recommendations)

\* two recommendations or more were asked for, the passes of two sectors
\* or more reached a candidate with prices on dates of the portfolio, and
\* the sorted list came back
C5_Witness ==
    /\ RecommendReturned /\ processed # None
    /\ num_recommendations >= 2
    /\ Cardinality({k \in DOMAIN processed : processed[k].raised}) >= 2
    /\ outcome.value.recommendations = recommendations

(* C6: no ticker of the input portfolio appears in what recommend_stocks
   returns, neither under "recommendations" nor under
   "fallback_suggestions", whatever the sector lookups return. *)
C6_NoHeldTicker ==
    RecommendReturned =>
        /\ \A i \in DOMAIN outcome.value.recommendations :
               outcome.value.recommendations[i].ticker \notin Held
        /\ \A i \in DOMAIN outcome.value.fallback_suggestions :
               outcome.value.fallback_suggestions[i].ticker \notin Held

\* the fallback's lookup listed a held ticker first and a free one after it,
\* and a suggestion came back
C6_Witness ==
    /\ RecommendReturned
    /\ outcome.value.fallback_suggestions # <<>>
    /\ holdings_lookup.kind = "frame" /\ Len(holdings_lookup.rows) >= 2
    /\ holdings_lookup.rows[1] \in Held

(* C7: for every num_recommendations >= 0 the returned list is no longer
   than num_recommendations and is the num_recommendations highest-scoring
   of all scored candidates: the cut comes after the sort. *)
C7_TopAfterSort ==
    RecommendReturned =>
        LET r == outcome.value.recommendations
            all == recommendations
        IN /\ Len(r) <= num_recommendations
           /\ Len(r) = Min(num_recommendations, Len(all))
           /\ \A i \in DOMAIN r : r[i] = all[i]
           /\ \A i \in DOMAIN r : \A j \in (Len(r) + 1)..Len(all) :
                  Score(r[i]) >= Score(all[j])

\* fewer recommendations were asked for than candidates were scored, and a
\* candidate left out scores lower than one returned
C7_Witness ==
    /\ RecommendReturned
    /\ num_recommendations > 0
    /\ Len(outcome.value.recommendations) = num_recommendations
    /\ Len(recommendations) > num_recommendations
    /\ Score(recommendations[Len(recommendations)]) < Score(recommendations[1])

AnalyzeFinished == pc = "done" /\ entry = "analyze" /\ projected # None

Classify(trend) ==
    IF trend > 5 THEN "Bullish" ELSE IF trend < 0 - 5 THEN "Bearish" ELSE "Neutral"

(* C8: the market condition is a total function of the benchmark's trend
   percentage: above 5 Bullish, below -5 Bearish, otherwise (exactly 5 and
   exactly -5 included) Neutral, for every non-empty benchmark series. *)
C8_Classification ==
    (AnalyzeFinished /\ ~IsEmpty(market_data)) =>
        /\ outcome.kind = "returned" /\ ~IsError(outcome.value)
        /\ outcome.value.market_conditions.market_condition =
               Classify(market_data.stats.trend)

(* C9: with an empty benchmark series the market context is "Unknown" with
   volatility 0 and trend 0, and analyze_proposed_portfolio still returns
   a success result (metrics, market conditions, opinion) built from it. *)
C9_EmptyBenchmark ==
    (AnalyzeFinished /\ IsEmpty(market_data)) =>
        /\ outcome.kind = "returned" /\ ~IsError(outcome.value)
        /\ outcome.value.market_conditions = UnknownCondition
        /\ outcome.value.portfolio_metrics.beta = 100
        /\ outcome.value.portfolio_metrics.historical_metrics = hist
        /\ \A i \in DOMAIN outcome.value.opinion :
               outcome.value.opinion[i] \notin
                   {"Current market conditions are bearish",
                    "Current market conditions are bullish"}

\* an analysis whose benchmark download failed returned its metrics and an
\* opinion
C9_Witness ==
    /\ AnalyzeFinished /\ IsEmpty(market_data)
    /\ outcome.kind = "returned" /\ ~IsError(outcome.value)
    /\ Len(outcome.value.opinion) >= 3

(* C10: when recommend_stocks ends with no scored candidate and at least
   one low-correlation sector, it returns a non-error result with at most
   2 unscored tickers, all from the lookup of the sector of smallest
   absolute correlation and none held, with a message exactly when there
   is a suggestion; when that lookup is unavailable or lists only held
   tickers, recommendations and fallback are empty and there is no
   message. *)
C10_Fallback ==
    (pc = "done" /\ entry = "recommend" /\ sector_pos > 0
        /\ recommendations = <<>> /\ low_corr_sectors # <<>>) =>
        /\ outcome.kind = "returned" /\ ~IsError(outcome.value)
        /\ LET f == outcome.value.fallback_suggestions
               best == low_corr_sectors[1]
           IN /\ Len(f) <= 2
              /\ \A j \in DOMAIN correlations :
                     Abs(best.corr) <= Abs(correlations[j].corr)
              /\ \A i \in DOMAIN f :
                     /\ f[i].sector = SectorLabel(best.etf)
                     /\ f[i].ticker \in Range(holdings_lookup.rows)
                     /\ f[i].ticker \notin Held
              /\ (f # <<>>) <=> (outcome.value.fallback_message # None)
              /\ (holdings_lookup.kind # "frame" \/ Range(holdings_lookup.rows) \subseteq Held) =>
                     /\ f = <<>>
                     /\ outcome.value.recommendations = <<>>
                     /\ outcome.value.fallback_message = None

\* the best sector's lookup listed three tickers that are not held, and two
\* suggestions came back with the message; another sector correlates more
C10_Witness ==
    /\ RecommendReturned
    /\ recommendations = <<>> /\ low_corr_sectors # <<>>
    /\ Len(outcome.value.fallback_suggestions) = 2
    /\ outcome.value.fallback_message # None
    /\ holdings_lookup.kind = "frame" /\ Len(holdings_lookup.rows) = 3
    /\ Range(holdings_lookup.rows) \cap Held = {}
    /\ \E j \in DOMAIN correlations :
           Abs(correlations[j].corr) > Abs(low_corr_sectors[1].corr)


\* the market value of position i of portfolio p
MarketValue(p, i) == p[i].price * p[i].shares

(* C11: for a portfolio whose positions all have price > 0 and shares > 0,
   the position weights computed by analyze_proposed_portfolio and by
   recommend_stocks are market value / total market value (to the model's
   millionth), each in [0, 1], summing to 1 within 1e-6, and
   recommend_stocks derives the same weights as the analysis it called. *)
C11_PositionWeights ==
    (pc \in {"an_market", "an_project", "rec_sector", "done"}
        /\ portfolio_data # <<>> /\ weights # <<>>
        /\ \A i \in DOMAIN portfolio_data :
               portfolio_data[i].price > 0 /\ portfolio_data[i].shares > 0) =>
        LET total == SumSeq([i \in DOMAIN portfolio_data |->
                                MarketValue(portfolio_data, i)])
        IN /\ Len(weights) = Len(portfolio_data)
           /\ \A i \in DOMAIN weights :
                  /\ weights[i] * total <= MarketValue(portfolio_data, i) * One
                  /\ MarketValue(portfolio_data, i) * One < (weights[i] + 1) * total
                  /\ 0 <= weights[i] /\ weights[i] <= One
           /\ Abs(SumSeq(weights) - One) <= Tol
           /\ (entry = "recommend" /\ pc = "rec_sector") =>
                  weights = current_analysis.portfolio_metrics.weights

\* recommend_stocks has recomputed the weights of a two-position portfolio
\* of unequal market values
C11_Witness ==
    /\ entry = "recommend" /\ pc = "rec_sector"
    /\ Len(weights) = 2 /\ weights[1] < weights[2]
    /\ weights = current_analysis.portfolio_metrics.weights


AnalyzeReturned ==
    /\ pc = "done" /\ entry = "analyze"
    /\ outcome.kind = "returned" /\ ~IsError(outcome.value)

(* C12: the projection takes an injectable seed, and two runs of it with
   the same seed and the same inputs give identical simulated price paths
   for every asset and every projected day.  analyze_proposed_portfolio
   takes the holdings and nothing else, so the two runs compared are two
   calls with the same holdings, market data and projection dates. *)
C12_RerunSamePaths ==
    (AnalyzeReturned /\ first_run # None /\ first_run.Date = dates) =>
        outcome.value.portfolio_metrics.future_prices.prices = first_run.prices

(* C16: the date axis of the projection has exactly num_days (252) dates,
   every one a weekday, and each asset's simulated path has one price per
   date. *)
C16_DateAxis ==
    AnalyzeReturned =>
        LET fp == outcome.value.portfolio_metrics.future_prices
        IN /\ Len(fp.Date) = num_days
           /\ \E wd \in 0..6 : \A k \in DOMAIN fp.Date : (wd + fp.Date[k]) % 7 < 5
           /\ \A i \in DOMAIN fp.prices : Len(fp.prices[i]) = Len(fp.Date)

(* C17: for each asset the simulated daily returns are drawn with mean the
   asset's own historical annual return / 252 and standard deviation the
   asset's own historical annual volatility / sqrt(252) (a draw is mean +
   deviation * z with z one of -1, 0, 1), and the path is the current price
   compounded by (1 + draw) for each projected day: the daily change of the
   path is such a draw, within the 2e-7 that prices cut to a millionth of a
   dollar leave open. *)
C17_OwnDrawParameters ==
    AnalyzeReturned =>
        LET fp == outcome.value.portfolio_metrics.future_prices.prices
            st == historical_data.stats
        IN \A i \in DOMAIN fp :
               LET drawn == PctChange(<<portfolio_data[i].price * 10^6>> \o fp[i])
               IN \A k \in DOMAIN drawn : \E z \in {0 - 1, 0, 1} :
                      Abs(drawn[k] - (DailyMean(st.asset_ret[i])
                                      + DailyVol(st.asset_vol[i]) * z)) <= 20

(* C18: no invocation changes state that a later invocation reads: the
   analyzer's fields (risk_free_rate, the sector catalog, a definition
   here), the caller's holdings during a request, and the process-global
   random generator are left unchanged by every step. *)
C18_NoSharedState ==
    [][/\ risk_free_rate' = risk_free_rate
       /\ rng' = rng
       /\ (pc # "idle" /\ pc' # "idle") => portfolio_data' = portfolio_data]_vars


(* C14: in recommend_stocks a failure while retrieving or processing one
   sector or one candidate skips only that item: after a pass, the prices
   of every constituent of the sector's top holdings that is not held were
   asked for (no candidate is left out because an earlier one failed),
   every selected sector gets its pass, and the call returns a non-error
   result. *)
C14_ItemLevelSkip ==
    /\ (pc = "rec_sector" /\ sector_pos > 1 /\ holdings_lookup.kind = "frame") =>
           \A i \in DOMAIN Head5(holdings_lookup.rows) :
               Head5(holdings_lookup.rows)[i] \notin Held =>
                   \E j \in DOMAIN stock_fetches : stock_fetches[j] = i
    /\ (pc = "done") =>
           /\ outcome.kind = "returned" /\ ~IsError(outcome.value)
           /\ sector_pos = Len(low_corr_sectors) + 1


\* the catalog proxies whose returns share a date with the portfolio's
Overlapping ==
    {e \in Range(EtfNames) :
        /\ e \in Range(etf_data.cols)
        /\ portfolio_returns \cap ReturnsIndex(etf_data) # {}}

\* the proxies recommend_stocks selected
Selected == {low_corr_sectors[i].etf : i \in DOMAIN low_corr_sectors}

(* C15: recommend_stocks selects exactly min(3, k) sector proxies, those of
   smallest absolute correlation with the portfolio's returns, k being the
   number of catalog proxies that share a date with the portfolio; a proxy
   that shares none is never selected and never listed under
   low_correlation_sectors. *)
C15_LowCorrSelection ==
    (entry = "recommend" /\ pc \in {"rec_sector", "done"} /\ sector_pos > 0) =>
        /\ Len(low_corr_sectors) = Min(3, Cardinality(Overlapping))
        /\ Cardinality(Selected) = Len(low_corr_sectors)
        /\ Selected \subseteq Overlapping
        /\ \A i \in DOMAIN low_corr_sectors :
               low_corr_sectors[i].corr = etf_data.stats[low_corr_sectors[i].etf]
        /\ \A e \in Selected : \A f \in Overlapping \ Selected :
               Abs(etf_data.stats[e]) <= Abs(etf_data.stats[f])
        /\ (pc = "done" /\ ~IsError(outcome.value)) =>
               outcome.value.analysis.low_correlation_sectors =
                   [i \in DOMAIN low_corr_sectors |->
                       SectorLabel(low_corr_sectors[i].etf)]

\* every proxy of the catalog overlaps, three are listed in the result, one
\* of them from the middle of the catalog with a negative correlation, and
\* a proxy left out correlates more than one selected
C15_Witness ==
    /\ RecommendReturned /\ sector_pos > 0
    /\ Cardinality(Overlapping) = Len(sector_etfs)
    /\ Len(outcome.value.analysis.low_correlation_sectors) = 3
    /\ "XLI" \in Selected /\ etf_data.stats["XLI"] < 0
    /\ \E e \in Selected : \E f \in Overlapping \ Selected :
           Abs(etf_data.stats[e]) < Abs(etf_data.stats[f])

\* the list the loop accumulates when it takes the first n sectors of
\* low_corr_sectors, and the rows of each, in the order of the source
RECURSIVE InSourceOrder(_, _)
InSourceOrder(log, n) ==
    IF n = 0 THEN <<>>
    ELSE InSourceOrder(log, n - 1)
             \o (CHOOSE e \in Range(log) : e.pos = n).added

(* C19: the list returned under "recommendations" does not depend on the
   order in which the selected sectors and the candidates of a sector are
   fetched and processed: taken in any order, on the same lookups and
   downloads, the passes give the list, in the order, that the order of
   the source gives.  It holds because no order appends anything: whichever
   candidate with prices a pass reaches first, line 339 raises and line 356
   ends the pass. *)
C19_OrderIndependent ==
    (RecommendReturned /\ processed # None) =>
        outcome.value.recommendations =
            top_recommendations(
                InSourceOrder(processed, Len(low_corr_sectors)),
                num_recommendations)

\* three sectors were taken in another order than the source's, one of
\* them with its two rows in the other order, a candidate's exception
\* ended a pass, and a recommendation was asked for
C19_Witness ==
    /\ RecommendReturned /\ processed # None
    /\ Len(processed) = 3 /\ processed[1].pos # 1
    /\ num_recommendations >= 1
    /\ \E k \in DOMAIN processed :
           processed[k].reordered /\ processed[k].raised

NoDuplicateTicker(list) ==
    \A i, j \in DOMAIN list : i # j => list[i].ticker # list[j].ticker

(* C20: no ticker appears more than once under "recommendations", nor under
   "fallback_suggestions", even when a ticker is a top constituent of
   several selected sectors or is listed twice by one lookup. *)
C20_NoDuplicateTickers ==
    RecommendReturned =>
        /\ NoDuplicateTicker(outcome.value.recommendations)
        /\ NoDuplicateTicker(outcome.value.fallback_suggestions)

====
